---- MODULE Spec2Model ----
(***************************************************************************)
(* State-machine model of three gnome-calendar widgets:                    *)
(*   - GcalSearchButton   (gcal-search-button.c)                           *)
(*   - GcalCalendarButton (gcal-calendar-button.c)                         *)
(*   - GcalImportDialog   (gui/importer/gcal-import-dialog.c)              *)
(* The widgets are independent objects; each has its own specification     *)
(* (SpecSearch, SpecPicker, SpecImport) over its own variables.            *)
(***************************************************************************)
EXTENDS Integers, Sequences, FiniteSets, TLC

\* ------------------------------------------------------------------ bounds
MaxLen == 1
MaxQueries == 3
MaxCalendars == 3
MaxFiles == 2

\* ------------------------------------------------------- program constants
SEARCH_LIMIT == 50

\* NULL for a calendar pointer; objects that are numbered as they are created
\* (result models, cancellables) use 0 for NULL
NULL == "NULL"
NULL_ID == 0

\* a GPtrArray pointer: NULL, or an array with its items
NullArray == [null |-> TRUE, items |-> <<>>]
PtrArray(items) == [null |-> FALSE, items |-> items]

VARIABLES
  \* GcalSearchButton
  text,             \* text of self->entry
  sb_cancellable,   \* self->cancellable
  sb_model,         \* model bound to results_listbox (NULL or the id of the query that produced it)
  reveal_child,     \* results_revealer "reveal-child"
  child_revealed,   \* results_revealer "child-revealed" (transition finished)
  popover_visible,  \* popover popped up
  stack,            \* visible child of self->stack
  queries,          \* searches handed to the search engine, in submission order
  sb_cancelled,     \* GCancellable objects of the search button that were cancelled
  \* GcalCalendarButton
  calendars_model,  \* items of gcal_manager_get_calendars_model ()
  cal_visible,      \* GcalCalendar "visible", per calendar
  listbox_rows,     \* rows of calendar_listbox: [calendar, check]
  \* GcalImportDialog
  phase,            \* "setup_files" / "setup_files_list" while the constructor
                    \* adds the files, then "ready"
  files_left,       \* files the constructor still has to add
  rows,             \* self->rows
  row_data,         \* per file row: parse result, visibility, loaded
  placeholder_visible, \* visibility of placeholder_spinner
  n_events,         \* self->n_events
  n_files,          \* self->n_files
  title,            \* title of the dialog
  combo_model,      \* model of calendar_combo_row (writable calendars)
  combo_selected,   \* selected position of calendar_combo_row, 0 = none
  default_calendar, \* gcal_manager_get_default_calendar ()
  selected_calendar, \* self->selected_calendar
  id_cancellable,   \* self->cancellable
  cancelled,        \* GCancellable objects of the dialog that were cancelled
  sensitive,        \* sensitivity of the dialog widget
  closed,           \* adw_dialog_close () was called on the dialog
  alive,            \* the dialog object has not been finalized
  aborted,          \* the process aborted (failed assertion, invalid access)
  stale_access,     \* a callback used the dialog after it was finalized
  tasks,            \* GTasks started by the dialog, in creation order
  calls,            \* calls received by backend clients, in order
  click_tick        \* flips at each run of on_import_button_clicked_cb, so that
                    \* a run that changes nothing is a step too

sbVars == <<text, sb_cancellable, sb_model, reveal_child, child_revealed,
            popover_visible, stack, queries, sb_cancelled>>
pkVars == <<calendars_model, cal_visible, listbox_rows>>
idVars == <<phase, files_left, rows, row_data, placeholder_visible,
            n_events, n_files, title, combo_model, combo_selected,
            default_calendar, selected_calendar, id_cancellable, cancelled,
            sensitive, closed, alive, aborted, stale_access, tasks, calls,
            click_tick>>
vars == <<sbVars, pkVars, idVars>>

\* ---------------------------------------------------------------- helpers
SeqsUpTo(S, n) == UNION {[1..k -> S] : k \in 0..n}

RECURSIVE SumSeq(_)
SumSeq(q) == IF q = <<>> THEN 0 ELSE Head(q) + SumSeq(Tail(q))

Chars == {" ", "a"}
Texts == SeqsUpTo(Chars, MaxLen)

\* g_cancellable_cancel (): a no-op on NULL, otherwise marks the object
g_cancellable_cancel(set, c) == IF c = NULL_ID THEN set ELSE set \cup {c}

\* g_cancellable_is_cancelled (): FALSE on NULL
g_cancellable_is_cancelled(set, c) == c # NULL_ID /\ c \in set

(***************************************************************************)
(* GcalSearchButton                                                        *)
(***************************************************************************)

\* The fields of the search button as one record, so that the handlers,
\* which re-enter each other through property notifications, compose.
SB == [text |-> text, cancellable |-> sb_cancellable, model |-> sb_model,
       reveal_child |-> reveal_child, popover_visible |-> popover_visible,
       stack |-> stack, queries |-> queries, cancelled |-> sb_cancelled]

SBInstall(S) ==
  /\ text' = S.text
  /\ sb_cancellable' = S.cancellable
  /\ sb_model' = S.model
  /\ reveal_child' = S.reveal_child
  /\ popover_visible' = S.popover_visible
  /\ stack' = S.stack
  /\ queries' = S.queries
  /\ sb_cancelled' = S.cancelled

\* a handler that lacks the empty-text test
IsEmptyText_never(t) == FALSE

\* the test `!text || *text == '\0'` of on_entry_text_changed_cb
IsEmptyText(t) == t = <<>>

\* g_strdup_printf ("(contains? \"summary\" \"%s\")", text)
SexpQuery(t) == <<"(contains? \"summary\" \"">> \o t \o <<"\")">>

show_suggestions(S) ==
  [S EXCEPT !.popover_visible = TRUE, !.reveal_child = TRUE]

RECURSIVE hide_suggestions(_), set_model(_, _), on_entry_text_changed_cb(_),
          gtk_editable_set_text(_, _)

\* gtk_editable_set_text (): notifies "text" only when the text changes
gtk_editable_set_text(S, t) ==
  IF S.text = t THEN S
  ELSE on_entry_text_changed_cb([S EXCEPT !.text = t])

\* a hide_suggestions that leaves the entry text alone
hide_suggestions_keeps_text(S) == [S EXCEPT !.reveal_child = FALSE]

hide_suggestions(S) ==
  gtk_editable_set_text([S EXCEPT !.reveal_child = FALSE], <<>>)

\* a set_model that shows the suggestions whatever the model is
set_model_shows(S, m) == show_suggestions([S EXCEPT !.model = m])

set_model(S, m) ==
  LET S1 == [S EXCEPT !.model = m]
  IN  IF m # NULL_ID THEN show_suggestions(S1) ELSE hide_suggestions(S1)

on_entry_text_changed_cb(S) ==
  LET S1 == [S EXCEPT !.cancelled = g_cancellable_cancel(S.cancelled, S.cancellable)]
  IN  IF IsEmptyText(S1.text)
      THEN set_model(S1, NULL_ID)
      ELSE [S1 EXCEPT !.queries = Append(S1.queries,
                         [sexp |-> SexpQuery(S1.text), limit |-> SEARCH_LIMIT,
                          cancellable |-> S1.cancellable, state |-> "inflight"])]

\* "closed" handler of the popover
on_popover_closed_cb(S) ==
  [gtk_editable_set_text(S, <<>>) EXCEPT !.stack = "button"]

\* gtk_popover_popdown (): emits "closed" only when the popover is shown
gtk_popover_popdown(S) ==
  IF S.popover_visible
  THEN on_popover_closed_cb([S EXCEPT !.popover_visible = FALSE])
  ELSE S

\* gcal_search_button_init: the instance is zero-filled and init creates no
\* GCancellable
SearchInit ==
  /\ text = <<>>
  /\ sb_cancellable = NULL_ID
  /\ sb_model = NULL_ID
  /\ reveal_child = FALSE
  /\ child_revealed = FALSE
  /\ popover_visible = FALSE
  /\ stack = "button"
  /\ queries = <<>>
  /\ sb_cancelled = {}

\* the user edits the entry: notify::text runs on_entry_text_changed_cb
EntryTextChanged(t) ==
  /\ t # text
  /\ IsEmptyText(t) \/ Len(queries) < MaxQueries
  /\ SBInstall(gtk_editable_set_text(SB, t))
  /\ UNCHANGED <<child_revealed, pkVars, idVars>>

gcal_search_button_search(t) ==
  /\ IsEmptyText(t) \/ Len(queries) < MaxQueries
  /\ SBInstall(gtk_editable_set_text(SB, t))
  /\ UNCHANGED <<child_revealed, pkVars, idVars>>

on_button_clicked_cb ==
  /\ stack = "button"
  /\ SBInstall([SB EXCEPT !.stack = "entry"])
  /\ UNCHANGED <<child_revealed, pkVars, idVars>>

on_focus_controller_leave_cb ==
  /\ stack = "entry"
  /\ SBInstall(gtk_editable_set_text(
                 hide_suggestions([SB EXCEPT !.stack = "button"]), <<>>))
  /\ UNCHANGED <<child_revealed, pkVars, idVars>>

on_entry_icon_pressed_cb(primary) ==
  /\ stack = "entry"
  /\ SBInstall(IF primary THEN [SB EXCEPT !.stack = "button"] ELSE SB)
  /\ UNCHANGED <<child_revealed, pkVars, idVars>>

\* the search engine completes query i; ok = FALSE is an engine error.  A
\* cancelled search finishes with a NULL model.  The query is "done" when
\* gcal_search_engine_search_finish returned a model and "failed" when it
\* returned NULL; the engine keeps nothing of an answered request.
on_search_finished_cb(i, ok) ==
  /\ i \in 1..Len(queries)
  /\ queries[i].state = "inflight"
  /\ LET gone == g_cancellable_is_cancelled(sb_cancelled, queries[i].cancellable)
         model == IF ok /\ ~gone THEN i ELSE NULL_ID
         S1 == [SB EXCEPT !.queries[i].state =
                            IF model # NULL_ID THEN "done" ELSE "failed",
                          !.queries[i].sexp = <<>>]
     IN  SBInstall(set_model(S1, model))
  /\ UNCHANGED <<child_revealed, pkVars, idVars>>

\* the user dismisses the popover (autohide)
PopoverDismissed ==
  /\ popover_visible
  /\ SBInstall(gtk_popover_popdown(SB))
  /\ UNCHANGED <<child_revealed, pkVars, idVars>>

on_results_listbox_row_activated_cb ==
  /\ sb_model # NULL_ID
  /\ popover_visible
  /\ child_revealed
  /\ SBInstall(hide_suggestions(SB))
  /\ UNCHANGED <<child_revealed, pkVars, idVars>>

\* the revealer finishes its transition and notifies "child-revealed"
on_results_revealer_child_reveal_state_changed_cb ==
  /\ child_revealed # reveal_child
  /\ child_revealed' = reveal_child
  /\ SBInstall(IF ~child_revealed' /\ ~reveal_child
               THEN gtk_popover_popdown(SB) ELSE SB)
  /\ UNCHANGED <<pkVars, idVars>>

SearchNext ==
  \/ \E t \in Texts : EntryTextChanged(t)
  \/ \E t \in Texts : gcal_search_button_search(t)
  \/ on_button_clicked_cb
  \/ on_focus_controller_leave_cb
  \/ \E primary \in BOOLEAN : on_entry_icon_pressed_cb(primary)
  \/ \E i \in 1..MaxQueries, ok \in BOOLEAN : on_search_finished_cb(i, ok)
  \/ PopoverDismissed
  \/ on_results_listbox_row_activated_cb
  \/ on_results_revealer_child_reveal_state_changed_cb

(***************************************************************************)
(* GcalCalendarButton                                                      *)
(***************************************************************************)
Calendars == 1..MaxCalendars

\* a propagation that updates every checkbox of the list
BindingSourceToTarget_all(rs, c, v) ==
  [i \in DOMAIN rs |-> [rs[i] EXCEPT !.check = v]]

\* the source -> target half of the "visible" <-> "active" binding: every
\* checkbox bound to calendar c follows the calendar
BindingSourceToTarget(rs, c, v) ==
  [i \in DOMAIN rs |-> IF rs[i].calendar = c THEN [rs[i] EXCEPT !.check = v]
                                             ELSE rs[i]]

\* a binding made without G_BINDING_SYNC_CREATE: the new checkbox is inactive
create_row_func_no_sync(c) == [calendar |-> c, check |-> FALSE]

\* create_row_func: the row keeps its calendar and its checkbox;
\* G_BINDING_SYNC_CREATE copies "visible" into "active"
create_row_func(c) == [calendar |-> c, check |-> cal_visible[c]]

\* gtk_check_button_set_active () on the checkbox of row i; the target ->
\* source half of the binding writes the value to the row's calendar
gtk_check_button_set_active(i, v) ==
  IF listbox_rows[i].check = v
  THEN UNCHANGED <<cal_visible, listbox_rows>>
  ELSE LET c == listbox_rows[i].calendar
       IN  /\ cal_visible' = [cal_visible EXCEPT ![c] = v]
           /\ listbox_rows' =
                BindingSourceToTarget([listbox_rows EXCEPT ![i].check = v], c, v)

\* gcal_calendar_button_set_property (PROP_CONTEXT): the listbox is bound to
\* the manager's calendars model
PickerInit ==
  /\ calendars_model = <<>>
  /\ cal_visible = [c \in Calendars |-> TRUE]
  /\ listbox_rows = <<>>

\* the manager adds a calendar: items-changed makes the listbox build a row
CalendarAdded(c) ==
  /\ \A i \in DOMAIN calendars_model : calendars_model[i] # c
  /\ calendars_model' = Append(calendars_model, c)
  /\ listbox_rows' = Append(listbox_rows, create_row_func(c))
  /\ UNCHANGED <<cal_visible, sbVars, idVars>>

\* the manager removes the calendar at position i: its row is dropped
CalendarRemoved(i) ==
  /\ i \in DOMAIN calendars_model
  /\ calendars_model' = SubSeq(calendars_model, 1, i - 1)
                          \o SubSeq(calendars_model, i + 1, Len(calendars_model))
  /\ listbox_rows' = SubSeq(listbox_rows, 1, i - 1)
                       \o SubSeq(listbox_rows, i + 1, Len(listbox_rows))
  /\ UNCHANGED <<cal_visible, sbVars, idVars>>

on_listbox_row_activated_cb(i) ==
  /\ i \in DOMAIN listbox_rows
  /\ gtk_check_button_set_active(i, ~listbox_rows[i].check)
  /\ UNCHANGED <<calendars_model, sbVars, idVars>>

\* the user clicks the checkbox itself: GtkCheckButton toggles "active"
CheckboxToggled(i) ==
  /\ i \in DOMAIN listbox_rows
  /\ gtk_check_button_set_active(i, ~listbox_rows[i].check)
  /\ UNCHANGED <<calendars_model, sbVars, idVars>>

\* another part of the application sets GcalCalendar "visible"
CalendarVisibleSet(c, v) ==
  /\ cal_visible[c] # v
  /\ cal_visible' = [cal_visible EXCEPT ![c] = v]
  /\ listbox_rows' = BindingSourceToTarget(listbox_rows, c, v)
  /\ UNCHANGED <<calendars_model, sbVars, idVars>>

PickerNext ==
  \/ \E c \in Calendars : CalendarAdded(c)
  \/ \E i \in 1..MaxCalendars : CalendarRemoved(i)
  \/ \E i \in 1..MaxCalendars : on_listbox_row_activated_cb(i)
  \/ \E i \in 1..MaxCalendars : CheckboxToggled(i)
  \/ \E c \in Calendars, v \in BOOLEAN : CalendarVisibleSet(c, v)

(***************************************************************************)
(* GcalImportDialog                                                        *)
(***************************************************************************)
setupVars == <<phase, files_left>>
fileVars == <<rows, row_data, placeholder_visible, n_events, n_files, title>>
calVars == <<combo_model, combo_selected, default_calendar, selected_calendar>>
lifeVars == <<sensitive, closed, alive, aborted, stale_access>>
taskVars == <<id_cancellable, cancelled, tasks, calls>>

ImportCalendars == {"calA", "calB"}
WritableModels == {<<>>, <<"calA", "calB">>}
FileRows == 1..MaxFiles

\* gcal_calendar_get_client (): each calendar has its own backend client
gcal_calendar_get_client(c) == <<"client", c>>

\* find_calendar (): position of the calendar in the model, 0 when absent
find_calendar(model, calendar) ==
  IF \E i \in DOMAIN model : model[i] = calendar
  THEN CHOOSE i \in DOMAIN model :
         /\ model[i] = calendar
         /\ \A j \in DOMAIN model : model[j] = calendar => i <= j
  ELSE 0

\* adw_combo_row_get_selected_item ()
SelectedItem(model, pos) == IF pos \in DOMAIN model THEN model[pos] ELSE NULL

\* update_default_calendar (): the position the combo row ends up with
update_default_calendar(model, def, sel) ==
  IF def # NULL /\ find_calendar(model, def) # 0
  THEN find_calendar(model, def)
  ELSE sel

\* setup_calendars (): adw_combo_row_set_model () selects the first item of
\* a non-empty model, then the default calendar is looked up
setup_calendars(model, def) ==
  update_default_calendar(model, def, IF model = <<>> THEN 0 ELSE 1)

\* "%d" of a non-negative count: its decimal digits
Digit(d) == <<"0", "1", "2", "3", "4", "5", "6", "7", "8", "9">>[d + 1]
RECURSIVE DecimalString(_)
DecimalString(n) ==
  IF n < 10 THEN <<Digit(n)>>
  ELSE Append(DecimalString(n \div 10), Digit(n % 10))

\* title built by on_import_row_file_loaded_cb: g_dngettext picks the
\* singular for 1, "%d" prints the count
ImportTitle(n) ==
  <<"Import ">> \o DecimalString(n)
               \o (IF n = 1 THEN <<" event">> ELSE <<" events">>)

NoRowData == [loaded |-> FALSE, components |-> NullArray, timezones |-> NullArray,
              visible |-> FALSE]

\* a collection a file row holds once loaded: n items of the file, or no
\* collection at all (n = NoArray)
NoArray == -1

\* what parsing a file can leave in its row, as <<components, timezones>>:
\* a failed parse, a file without items, timezones only, components
\* without a timezone collection, components with their timezones
ParseResults ==
  {<<NoArray, NoArray>>, <<0, 0>>, <<0, 1>>, <<1, NoArray>>, <<2, 2>>}
ParsedItems(kind, r, n) ==
  IF n = NoArray THEN NullArray ELSE PtrArray([k \in 1..n |-> <<kind, r, k>>])

\* g_object_new (constructed -> setup_calendars), before the constructor
\* function adds the files
ImportInit ==
  /\ phase \in {"setup_files", "setup_files_list"}
  /\ files_left \in (IF phase = "setup_files_list" THEN 1..MaxFiles
                                                   ELSE 0..MaxFiles)
  /\ n_files = (IF phase = "setup_files" THEN files_left ELSE 0)
  /\ rows = <<>>
  /\ row_data = [r \in FileRows |-> NoRowData]
  /\ placeholder_visible = TRUE
  /\ n_events = 0
  /\ title = <<>>
  /\ combo_model \in WritableModels
  /\ default_calendar \in ImportCalendars \cup {NULL}
  /\ combo_selected = setup_calendars(combo_model, default_calendar)
  /\ selected_calendar = SelectedItem(combo_model, combo_selected)
  /\ id_cancellable = NULL_ID
  /\ cancelled = {}
  /\ sensitive = TRUE
  /\ closed = FALSE
  /\ alive = TRUE
  /\ aborted = FALSE
  /\ stale_access = FALSE
  /\ tasks = <<>>
  /\ calls = <<>>
  /\ click_tick = FALSE

Running == alive /\ ~aborted

\* add_file (), called by setup_files / setup_files_list for each file
add_file ==
  /\ phase # "ready"
  /\ files_left > 0
  /\ rows' = <<Len(rows) + 1>> \o rows
  /\ placeholder_visible' = FALSE
  /\ files_left' = files_left - 1
  /\ UNCHANGED <<phase, row_data, n_events, n_files, title>>
  /\ UNCHANGED <<calVars, lifeVars, taskVars, click_tick>>
  /\ UNCHANGED <<sbVars, pkVars>>

\* end of setup_files / setup_files_list; the latter stores the count last
setup_files_done ==
  /\ phase # "ready"
  /\ files_left = 0
  /\ phase' = "ready"
  /\ n_files' = (IF phase = "setup_files_list" THEN Len(rows) ELSE n_files)
  /\ UNCHANGED <<files_left, rows, row_data, placeholder_visible,
                 n_events, title>>
  /\ UNCHANGED <<calVars, lifeVars, taskVars, click_tick>>
  /\ UNCHANGED <<sbVars, pkVars>>

\* an assignment in place of the accumulation
AddEvents_assign(n, events) == IF ~events.null THEN Len(events.items) ELSE 0

\* self->n_events += events ? events->len : 0
AddEvents(n, events) == n + (IF ~events.null THEN Len(events.items) ELSE 0)

\* row r finishes parsing and emits "file-loaded" with its events
on_import_row_file_loaded_cb(r, nc, nz) ==
  /\ phase = "ready"
  /\ Running
  /\ \E i \in DOMAIN rows : rows[i] = r
  /\ ~row_data[r].loaded
  /\ LET events == ParsedItems("comp", r, nc)
     IN  /\ n_events' = AddEvents(n_events, events)
         /\ title' = ImportTitle(n_events')
         /\ row_data' = [row_data EXCEPT ![r] =
                           [loaded |-> TRUE, components |-> events,
                            timezones |-> ParsedItems("zone", r, nz),
                            visible |-> TRUE]]
  /\ UNCHANGED <<rows, placeholder_visible, n_files>>
  /\ UNCHANGED <<setupVars, calVars, lifeVars, taskVars, click_tick>>
  /\ UNCHANGED <<sbVars, pkVars>>

\* the user picks position pos in the combo row
on_calendar_combo_row_selected_item_changed_cb(pos) ==
  /\ phase = "ready"
  /\ Running
  /\ sensitive
  /\ ~closed
  /\ pos \in DOMAIN combo_model
  /\ pos # combo_selected
  /\ combo_selected' = pos
  /\ selected_calendar' = SelectedItem(combo_model, pos)
  /\ UNCHANGED <<combo_model, default_calendar>>
  /\ UNCHANGED <<setupVars, fileVars, lifeVars, taskVars, click_tick>>
  /\ UNCHANGED <<sbVars, pkVars>>

\* notify::default-calendar of the manager runs update_default_calendar
DefaultCalendarChanged(c) ==
  /\ phase = "ready"
  /\ Running
  /\ c # default_calendar
  /\ default_calendar' = c
  /\ combo_selected' = update_default_calendar(combo_model, c, combo_selected)
  /\ selected_calendar' = SelectedItem(combo_model, combo_selected')
  /\ UNCHANGED combo_model
  /\ UNCHANGED <<setupVars, fileVars, lifeVars, taskVars, click_tick>>
  /\ UNCHANGED <<sbVars, pkVars>>

\* a list handed on as built, last prepended first
g_slist_reverse_none(l) == l

\* g_slist_reverse ()
g_slist_reverse(l) == [i \in 1..Len(l) |-> l[Len(l) + 1 - i]]

\* the inner loops of the click handler: g_slist_prepend of every element of
\* a GPtrArray, first to last
RECURSIVE PrependAll(_, _)
PrependAll(list, arr) ==
  IF arr = <<>> THEN list
  ELSE PrependAll(<<Head(arr)>> \o list, Tail(arr))

\* the loop over self->rows of the click handler; a row without components
\* is skipped whole, a row without timezones adds its components only
RECURSIVE AggregateRows(_, _, _, _)
AggregateRows(rs, rd, slist, zones) ==
  IF rs = <<>> THEN [slist |-> slist, zones |-> zones]
  ELSE LET row == rd[Head(rs)]
       IN  IF row.components.null
           THEN AggregateRows(Tail(rs), rd, slist, zones)
           ELSE IF row.timezones.null
           THEN AggregateRows(Tail(rs), rd,
                              PrependAll(slist, row.components.items), zones)
           ELSE AggregateRows(Tail(rs), rd,
                              PrependAll(slist, row.components.items),
                              PrependAll(zones, row.timezones.items))

\* a handler that lacks the early return
NothingToImport_never(agg) == FALSE

\* the test `if (!slist)` of the click handler
NothingToImport(agg) == agg.slist = <<>>

\* the ImportData handed to the task
ImportDataNew(calendar, agg) ==
  [client |-> gcal_calendar_get_client(calendar),
   components |-> g_slist_reverse(agg.slist),
   zones |-> g_slist_reverse(agg.zones)]

\* a submission that leaves the dialog sensitive
SpawnImport_stays_sensitive(agg) ==
  LET c == Len(tasks) + 1
  IN  /\ id_cancellable' = c
      /\ tasks' = Append(tasks,
                    [data |-> ImportDataNew(selected_calendar, agg),
                     cancellable |-> c, l |-> 1, state |-> "running",
                     tz_warnings |-> 0, error |-> FALSE, warned |-> FALSE])
      /\ UNCHANGED <<sensitive, cancelled, calls, closed, alive, aborted,
                     stale_access>>

\* the second half of the click handler: new cancellable, the dialog is
\* made insensitive, the task is started in a thread
SpawnImport(agg) ==
  LET c == Len(tasks) + 1   \* g_cancellable_new (): a new object
  IN  /\ id_cancellable' = c
      /\ sensitive' = FALSE
      /\ tasks' = Append(tasks,
                    [data |-> ImportDataNew(selected_calendar, agg),
                     cancellable |-> c, l |-> 1, state |-> "running",
                     tz_warnings |-> 0, error |-> FALSE, warned |-> FALSE])
      /\ UNCHANGED <<cancelled, calls, closed, alive, aborted, stale_access>>

\* the user clicks the import button (a click reaches only a sensitive,
\* open dialog)
on_import_button_clicked_cb ==
  /\ phase = "ready"
  /\ Running
  /\ sensitive
  /\ ~closed
  /\ click_tick' = ~click_tick
  /\ IF selected_calendar = NULL
     THEN \* g_assert (self->selected_calendar != NULL) fails
          /\ aborted' = TRUE
          /\ UNCHANGED <<sensitive, closed, alive, stale_access, taskVars>>
     ELSE LET agg == AggregateRows(rows, row_data, <<>>, <<>>)
          IN  IF NothingToImport(agg)
              THEN UNCHANGED <<lifeVars, taskVars>>
              ELSE SpawnImport(agg)
  /\ UNCHANGED <<setupVars, fileVars, calVars>>
  /\ UNCHANGED <<sbVars, pkVars>>

\* a thread that looks the client up when it makes a call
TaskClient_current(k) == gcal_calendar_get_client(selected_calendar)

\* id->client: the client stored in the ImportData of task k
TaskClient(k) == tasks[k].data.client

\* a timezone loop that gives up at the first failing registration: the
\* task returns the error without creating the objects
import_data_thread_add_timezone_aborts(k, ok) ==
  /\ k \in DOMAIN tasks
  /\ ~aborted
  /\ tasks[k].state = "running"
  /\ tasks[k].l <= Len(tasks[k].data.zones)
  /\ ~g_cancellable_is_cancelled(cancelled, tasks[k].cancellable)
  /\ calls' = Append(calls, [op |-> "add_timezone", task |-> k,
                             client |-> TaskClient(k),
                             arg |-> tasks[k].data.zones[tasks[k].l]])
  /\ tasks' = IF ok THEN [tasks EXCEPT ![k].l = @ + 1]
              ELSE [tasks EXCEPT ![k].state = "returned", ![k].error = TRUE,
                                 ![k].tz_warnings = @ + 1]
  /\ UNCHANGED <<id_cancellable, cancelled>>
  /\ UNCHANGED <<setupVars, fileVars, calVars, lifeVars, click_tick>>
  /\ UNCHANGED <<sbVars, pkVars>>

\* import_data_thread, one turn of the timezone loop of task k;
\* ok = FALSE is a failing e_cal_client_add_timezone_sync: a g_warning
import_data_thread_add_timezone(k, ok) ==
  /\ k \in DOMAIN tasks
  /\ ~aborted
  /\ tasks[k].state = "running"
  /\ tasks[k].l <= Len(tasks[k].data.zones)
  /\ ~g_cancellable_is_cancelled(cancelled, tasks[k].cancellable)
  /\ calls' = Append(calls, [op |-> "add_timezone", task |-> k,
                             client |-> TaskClient(k),
                             arg |-> tasks[k].data.zones[tasks[k].l]])
  /\ tasks' = [tasks EXCEPT ![k].l = @ + 1,
                            ![k].tz_warnings = @ + (IF ok THEN 0 ELSE 1)]
  /\ UNCHANGED <<id_cancellable, cancelled>>
  /\ UNCHANGED <<setupVars, fileVars, calVars, lifeVars, click_tick>>
  /\ UNCHANGED <<sbVars, pkVars>>

\* a thread that also returns an error when a timezone registration failed
import_data_thread_create_objects_strict(k, ok) ==
  /\ k \in DOMAIN tasks
  /\ ~aborted
  /\ tasks[k].state = "running"
  /\ \/ tasks[k].l > Len(tasks[k].data.zones)
     \/ g_cancellable_is_cancelled(cancelled, tasks[k].cancellable)
  /\ ok => ~g_cancellable_is_cancelled(cancelled, tasks[k].cancellable)
  /\ calls' = Append(calls, [op |-> "create_objects", task |-> k,
                             client |-> TaskClient(k),
                             arg |-> tasks[k].data.components, ok |-> ok])
  /\ tasks' = [tasks EXCEPT ![k].state = "returned",
                            ![k].error = ~ok \/ tasks[k].tz_warnings > 0]
  /\ UNCHANGED <<id_cancellable, cancelled>>
  /\ UNCHANGED <<setupVars, fileVars, calVars, lifeVars, click_tick>>
  /\ UNCHANGED <<sbVars, pkVars>>

\* import_data_thread after the loop: the batched create-objects call and
\* the task's return; a cancelled call fails
import_data_thread_create_objects(k, ok) ==
  /\ k \in DOMAIN tasks
  /\ ~aborted
  /\ tasks[k].state = "running"
  /\ \/ tasks[k].l > Len(tasks[k].data.zones)
     \/ g_cancellable_is_cancelled(cancelled, tasks[k].cancellable)
  /\ ok => ~g_cancellable_is_cancelled(cancelled, tasks[k].cancellable)
  /\ calls' = Append(calls, [op |-> "create_objects", task |-> k,
                             client |-> TaskClient(k),
                             arg |-> tasks[k].data.components, ok |-> ok])
  /\ tasks' = [tasks EXCEPT ![k].state = "returned", ![k].error = ~ok]
  /\ UNCHANGED <<id_cancellable, cancelled>>
  /\ UNCHANGED <<setupVars, fileVars, calVars, lifeVars, click_tick>>
  /\ UNCHANGED <<sbVars, pkVars>>

\* a completion that closes the dialog only when the import succeeded
EventsCreatedClose_on_success(k) ==
  /\ tasks' = [tasks EXCEPT ![k].state = "completed",
                 ![k].warned = tasks[k].error
                    \/ g_cancellable_is_cancelled(cancelled, tasks[k].cancellable)]
  /\ closed' = (closed \/ ~tasks'[k].warned)
  /\ UNCHANGED <<aborted, stale_access>>

\* what on_events_created_cb does to a live dialog: a warning when the task
\* carries an error (g_task_propagate_boolean also reports a cancelled
\* task as an error), then adw_dialog_close () in either case
EventsCreatedClose(k) ==
  /\ tasks' = [tasks EXCEPT ![k].state = "completed",
                 ![k].warned = tasks[k].error
                    \/ g_cancellable_is_cancelled(cancelled, tasks[k].cancellable)]
  /\ closed' = TRUE
  /\ UNCHANGED <<aborted, stale_access>>

\* the main loop dispatches the completion callback of task k.  The task
\* holds no reference on the dialog: after finalize the callback works on
\* freed memory, which either goes unnoticed or aborts the process.
on_events_created_cb(k) ==
  /\ k \in DOMAIN tasks
  /\ ~aborted
  /\ tasks[k].state = "returned"
  /\ IF alive
     THEN EventsCreatedClose(k)
     ELSE /\ tasks' = [tasks EXCEPT ![k].state = "completed"]
          /\ stale_access' = TRUE
          /\ aborted' \in BOOLEAN
          /\ UNCHANGED closed
  /\ UNCHANGED <<sensitive, alive, id_cancellable, cancelled, calls>>
  /\ UNCHANGED <<setupVars, fileVars, calVars, click_tick>>
  /\ UNCHANGED <<sbVars, pkVars>>

\* the last reference to the dialog is dropped
gcal_import_dialog_finalize ==
  /\ phase = "ready"
  /\ Running
  /\ cancelled' = g_cancellable_cancel(cancelled, id_cancellable)
  /\ id_cancellable' = NULL_ID
  /\ rows' = <<>>
  /\ row_data' = [r \in FileRows |-> NoRowData]   \* the rows go with the dialog
  /\ alive' = FALSE
  /\ UNCHANGED <<placeholder_visible, n_events, n_files, title>>
  /\ UNCHANGED <<sensitive, closed, aborted, stale_access, tasks, calls>>
  /\ UNCHANGED <<setupVars, calVars, click_tick>>
  /\ UNCHANGED <<sbVars, pkVars>>

ImportNext ==
  \/ add_file
  \/ setup_files_done
  \/ \E r \in FileRows, res \in ParseResults :
       on_import_row_file_loaded_cb(r, res[1], res[2])
  \/ \E pos \in 1..2 : on_calendar_combo_row_selected_item_changed_cb(pos)
  \/ \E c \in ImportCalendars \cup {NULL} : DefaultCalendarChanged(c)
  \/ on_import_button_clicked_cb
  \/ \E k \in DOMAIN tasks, ok \in BOOLEAN : import_data_thread_add_timezone(k, ok)
  \/ \E k \in DOMAIN tasks, ok \in BOOLEAN : import_data_thread_create_objects(k, ok)
  \/ \E k \in DOMAIN tasks : on_events_created_cb(k)
  \/ gcal_import_dialog_finalize

(***************************************************************************)
(* Specifications                                                          *)
(***************************************************************************)
\* Each widget is checked on its own; the other two stay as constructed.
PickerIdle ==
  /\ calendars_model = <<>>
  /\ cal_visible = [c \in Calendars |-> TRUE]
  /\ listbox_rows = <<>>

ImportIdle ==
  /\ ImportInit
  /\ phase = "setup_files"
  /\ files_left = 0
  /\ combo_model = <<>>
  /\ default_calendar = NULL

InitOfSearch == SearchInit /\ PickerIdle /\ ImportIdle
SpecSearch == InitOfSearch /\ [][SearchNext]_vars

InitOfPicker == SearchInit /\ PickerInit /\ ImportIdle
SpecPicker == InitOfPicker /\ [][PickerNext]_vars

InitOfImport == SearchInit /\ PickerIdle /\ ImportInit
SpecImport == InitOfImport /\ [][ImportNext]_vars

\* The worker thread of a task runs to its end and the main loop dispatches
\* the completion callback of a task that has returned.
LiveSpecImport ==
  /\ SpecImport
  /\ WF_vars(\E k \in DOMAIN tasks, ok \in BOOLEAN :
               import_data_thread_add_timezone(k, ok))
  /\ WF_vars(\E k \in DOMAIN tasks, ok \in BOOLEAN :
               import_data_thread_create_objects(k, ok))
  /\ WF_vars(\E k \in DOMAIN tasks : on_events_created_cb(k))

(***************************************************************************)
(* Properties of the search button                                         *)
(***************************************************************************)
\* queries handed to the engine that have not completed and whose
\* cancellable has not been cancelled
OutstandingQueries ==
  {i \in DOMAIN queries :
     /\ queries[i].state = "inflight"
     /\ ~g_cancellable_is_cancelled(sb_cancelled, queries[i].cancellable)}

\* a text made of whitespace only (the empty text included)
IsBlank(t) == \A i \in DOMAIN t : t[i] = " "

\* C1: a text change that submits a new query cancels the query still in
\* flight, so at most one un-cancelled query is outstanding at any time.
C1_AtMostOneOutstandingQuery == Cardinality(OutstandingQueries) <= 1

\* C2: when query q1 completes after a later query q2 whose result list is
\* displayed, the displayed list stays the one of q2.
C2_StaleCompletionKeepsNewerList ==
  [][\A q1, q2 \in DOMAIN queries :
       (/\ q1 < q2
        /\ queries[q1].state = "inflight"
        /\ queries[q2].state = "done"
        /\ sb_model = q2
        /\ queries'[q1].state # "inflight")
       => sb_model' = q2]_vars

\* C3 as stated: a change of the entry text to an empty or whitespace-only
\* text submits no query, leaves a null result model and hides the
\* suggestions.
C3_BlankTextClears ==
  [][(text' # text /\ IsBlank(text'))
       => (/\ Len(queries') = Len(queries)
           /\ sb_model' = NULL_ID
           /\ ~reveal_child')]_vars

\* C3 amended: a change of the entry text to the empty text submits no
\* query, leaves a null result model and hides the suggestions.
C3_EmptyTextClears ==
  [][(text' # text /\ text' = <<>>)
       => (/\ Len(queries') = Len(queries)
           /\ sb_model' = NULL_ID
           /\ ~reveal_child')]_vars

\* the text was emptied after a search had shown its results
C3_Witness ==
  /\ text = <<>>
  /\ \E i \in DOMAIN queries : queries[i].state = "done"
  /\ sb_model = NULL_ID
  /\ ~reveal_child
  /\ popover_visible

\* C11: the completion of a query installs the returned result set and
\* shows the suggestions; a completion without a result set (engine error
\* or cancellation) installs the NULL model and hides the suggestions, and
\* leaves the widget on the page it was on: there is no error state.
C11_CompletionInstallsResult ==
  [][\A i \in DOMAIN queries :
       (queries[i].state = "inflight" /\ queries'[i].state # "inflight")
       => /\ queries'[i].state = "done"
               => (sb_model' = i /\ reveal_child' /\ popover_visible')
          /\ queries'[i].state = "failed"
               => (sb_model' = NULL_ID /\ ~reveal_child')
          /\ stack' = stack]_vars

\* a first query failed, a second one returned the list that is displayed
C11_Witness ==
  /\ Len(queries) >= 2
  /\ queries[1].state = "failed"
  /\ queries[2].state = "done"
  /\ sb_model = 2
  /\ reveal_child
  /\ popover_visible

\* C16: while the entry text is empty the result model is NULL and the
\* suggestions are hidden, whatever query completes.
C16_EmptyTextStaysHidden ==
  text = <<>> => (sb_model = NULL_ID /\ ~reveal_child)

\* C20: a completion without a result set empties the entry text, and the
\* text-changed handling this re-enters submits no query.
C20_FailedSearchResetsText ==
  [][\A i \in DOMAIN queries :
       (queries[i].state = "inflight" /\ queries'[i].state = "failed")
       => /\ text' = <<>>
          /\ Len(queries') = Len(queries)
          /\ \A j \in DOMAIN queries \ {i} : queries'[j] = queries[j]]_vars

\* the only search made has failed and the entry is empty again
C20_Witness ==
  /\ Len(queries) = 1
  /\ queries[1].state = "failed"
  /\ text = <<>>
  /\ sb_model = NULL_ID
  /\ stack = "entry"

(***************************************************************************)
(* Properties of the calendar picker                                       *)
(***************************************************************************)
\* C9: when the checkbox of a row changes, the visibility of the calendar
\* the row was built for is flipped and no other calendar's visibility
\* changes.
C9_ToggleFlipsOnlyItsCalendar ==
  [][calendars_model' = calendars_model
       => \A i \in DOMAIN listbox_rows :
            listbox_rows'[i].check # listbox_rows[i].check
            => /\ cal_visible'[calendars_model[i]] = ~cal_visible[calendars_model[i]]
               /\ \A c \in Calendars \ {calendars_model[i]} :
                    cal_visible'[c] = cal_visible[c]]_vars

\* two rows whose checkboxes, and calendars, differ
C9_Witness ==
  /\ Len(listbox_rows) >= 2
  /\ listbox_rows[1].check # listbox_rows[2].check
  /\ cal_visible[calendars_model[1]] # cal_visible[calendars_model[2]]

\* C10: in every reachable state the checkbox of each row equals the
\* visibility of the row's calendar.
C10_CheckEqualsVisible ==
  \A i \in DOMAIN listbox_rows :
    /\ listbox_rows[i].calendar = calendars_model[i]
    /\ listbox_rows[i].check = cal_visible[calendars_model[i]]

\* a row is shown for a visible calendar, another for a hidden one
C10_Witness ==
  /\ \E i \in DOMAIN listbox_rows :
       listbox_rows[i].check /\ cal_visible[calendars_model[i]]
  /\ \E i \in DOMAIN listbox_rows :
       ~listbox_rows[i].check /\ ~cal_visible[calendars_model[i]]

(***************************************************************************)
(* Properties of the import dialog                                         *)
(***************************************************************************)
\* number of parsed components row r holds
RowComponentCount(r) ==
  IF row_data[r].components.null THEN 0 ELSE Len(row_data[r].components.items)

\* number of parsed components over all rows of the dialog
TotalComponents == SumSeq([i \in DOMAIN rows |-> RowComponentCount(rows[i])])

\* positions in the call log of the calls of kind op made by task k
TaskCalls(k, op) ==
  {i \in DOMAIN calls : calls[i].task = k /\ calls[i].op = op}

\* C4: a dialog starts at most one import task, and from the submission on
\* the dialog is insensitive.
C4_SingleImport ==
  /\ Len(tasks) <= 1
  /\ tasks # <<>> => ~sensitive

\* the import of the dialog ran to completion
C4_Witness ==
  /\ Len(tasks) = 1
  /\ tasks[1].state = "completed"
  /\ ~sensitive
  /\ closed

\* C5: a submission of N > 0 components starts a task that carries all N
\* components; the task makes no create-objects call while it runs and
\* exactly one, with all its components, once it has returned, and never
\* more add-timezone calls than it has timezones, whatever their outcomes.
C5_OneCreateCall ==
  /\ [](\A k \in DOMAIN tasks :
          /\ Cardinality(TaskCalls(k, "create_objects"))
               = (IF tasks[k].state = "running" THEN 0 ELSE 1)
          /\ \A i \in TaskCalls(k, "create_objects") :
               /\ calls[i].arg = tasks[k].data.components
               /\ Len(calls[i].arg) > 0
          /\ Cardinality(TaskCalls(k, "add_timezone"))
               <= Len(tasks[k].data.zones))
  /\ [][Len(tasks') > Len(tasks)
          => /\ TotalComponents > 0
             /\ Len(tasks'[Len(tasks')].data.components) = TotalComponents]_vars

\* a task with three timezones, one of whose registrations failed, has
\* registered all three and made its create-objects call
C5_Witness ==
  \E k \in DOMAIN tasks :
    /\ tasks[k].state = "returned"
    /\ Len(tasks[k].data.zones) = 3
    /\ Cardinality(TaskCalls(k, "add_timezone")) = 3
    /\ tasks[k].tz_warnings = 1
    /\ Cardinality(TaskCalls(k, "create_objects")) = 1

\* C6: a click with a calendar selected and no parsed component in any row
\* changes neither the sensitivity, the cancellable, the tasks, the backend
\* calls nor the open/closed state of the dialog.
C6_EmptySubmissionIsNoOp ==
  [][(/\ click_tick' # click_tick
      /\ selected_calendar # NULL
      /\ TotalComponents = 0)
       => UNCHANGED <<sensitive, id_cancellable, cancelled, tasks, calls,
                      closed, alive, aborted>>]_vars

\* the button was clicked while the only parsed items were timezones
C6_Witness ==
  /\ click_tick
  /\ tasks = <<>>
  /\ sensitive /\ ~closed /\ alive /\ ~aborted
  /\ id_cancellable = NULL_ID
  /\ TotalComponents = 0
  /\ \A i \in DOMAIN rows : row_data[rows[i]].loaded
  /\ \E i \in DOMAIN rows :
       /\ ~row_data[rows[i]].components.null
       /\ ~row_data[rows[i]].timezones.null
       /\ row_data[rows[i]].timezones.items # <<>>

\* C7: when the task of a live dialog has returned, the dialog gets closed
\* (unless it is finalized first), and the completion callback closes the
\* dialog whether the task carries an error or not.
C7_ClosedAfterReturn ==
  /\ ((\E k \in DOMAIN tasks : tasks[k].state = "returned") /\ alive)
       ~> (closed \/ ~alive)
  /\ [][\A k \in DOMAIN tasks :
          (/\ alive
           /\ tasks[k].state = "returned"
           /\ tasks'[k].state = "completed")
          => closed']_vars

\* the dialog was closed after a failed create-objects call
C7_Witness ==
  \E k \in DOMAIN tasks :
    /\ tasks[k].state = "completed"
    /\ tasks[k].error
    /\ tasks[k].warned
    /\ closed
    /\ alive

\* C8: once every row has emitted file-loaded, n_events and the count in
\* the title are the sum of the rows' event counts.
C8_TitleShowsSum ==
  (rows # <<>> /\ \A i \in DOMAIN rows : row_data[rows[i]].loaded)
    => /\ n_events = TotalComponents
       /\ title = ImportTitle(TotalComponents)

\* two rows have loaded, the first added with 2 events, the second with 1
C8_Witness ==
  /\ Len(rows) = 2
  /\ \A i \in DOMAIN rows : row_data[rows[i]].loaded
  /\ RowComponentCount(1) = 2
  /\ RowComponentCount(2) = 1
  /\ title = <<"Import ", "3", " events">>

\* C12: whenever the click handler runs, a destination calendar is
\* selected: its assertion holds.
C12_SubmitHasCalendar ==
  [][click_tick' # click_tick => selected_calendar # NULL]_vars

\* the calls of kind op made by task k, in the order they were made
TaskCallSeq(k, op) ==
  SelectSeq(calls, LAMBDA c : c.task = k /\ c.op = op)

\* the timezones task k has passed to add-timezone, in call order
ZonesRegistered(k) ==
  [i \in 1..Len(TaskCallSeq(k, "add_timezone")) |->
     TaskCallSeq(k, "add_timezone")[i].arg]

IsPrefix(p, q) == Len(p) <= Len(q) /\ \A i \in DOMAIN p : p[i] = q[i]

\* what C13 asks of a task whatever its cancellation: the registrations
\* made are the first timezones of the batch in order, a failed one does
\* not end them, all of them precede the create-objects call, and the task
\* returns an error exactly when create-objects failed
TaskRunsInOrder(k) ==
  /\ IsPrefix(ZonesRegistered(k), tasks[k].data.zones)
  /\ tasks[k].state = "running" => Len(ZonesRegistered(k)) = tasks[k].l - 1
  /\ \A i \in TaskCalls(k, "add_timezone"), j \in TaskCalls(k, "create_objects") :
       i < j
  /\ tasks[k].state # "running"
       => \A j \in TaskCalls(k, "create_objects") : tasks[k].error = ~calls[j].ok

\* C13 as stated: a task that has returned has passed every timezone of its
\* batch to add-timezone, before its create-objects call, and reports a
\* failure exactly when create-objects failed.
C13_AllZonesThenCreate ==
  \A k \in DOMAIN tasks :
    /\ TaskRunsInOrder(k)
    /\ tasks[k].state # "running" => ZonesRegistered(k) = tasks[k].data.zones

\* C13 amended: the same, but every timezone is registered only when the
\* token of the task was not cancelled; a cancelled task may have skipped
\* the timezones that were left.
C13_AllZonesUnlessCancelled ==
  \A k \in DOMAIN tasks :
    /\ TaskRunsInOrder(k)
    /\ (/\ tasks[k].state # "running"
        /\ ~g_cancellable_is_cancelled(cancelled, tasks[k].cancellable))
         => ZonesRegistered(k) = tasks[k].data.zones

\* a task whose two registrations both failed went on to a successful
\* create-objects call and returned without error
C13_Witness ==
  \E k \in DOMAIN tasks :
    /\ tasks[k].state = "returned"
    /\ ~g_cancellable_is_cancelled(cancelled, tasks[k].cancellable)
    /\ Len(tasks[k].data.zones) = 2
    /\ ZonesRegistered(k) = tasks[k].data.zones
    /\ tasks[k].tz_warnings = 2
    /\ ~tasks[k].error
    /\ \A j \in TaskCalls(k, "create_objects") : calls[j].ok

\* the items a row contributes to a submission: its components, and its
\* timezones when it has both collections
RowComponents(r) ==
  IF row_data[r].components.null THEN <<>> ELSE row_data[r].components.items

RowZones(r) ==
  IF row_data[r].components.null \/ row_data[r].timezones.null THEN <<>>
  ELSE row_data[r].timezones.items

RowItems(r, kind) == IF kind = "comp" THEN RowComponents(r) ELSE RowZones(r)

\* the items of one kind of the rows of rs, row after row in the order of rs
RECURSIVE ConcatRows(_, _)
ConcatRows(rs, kind) ==
  IF rs = <<>> THEN <<>>
  ELSE RowItems(Head(rs), kind) \o ConcatRows(Tail(rs), kind)

\* the rows in the order their files were added: add_file numbers them
AddOrder == [i \in 1..Len(rows) |-> i]

\* C14 as stated: the batch of a submission lists the components, and the
\* timezones, of the rows in the order the files were added, each row's
\* items in parsed order.
C14_BatchInAddOrder ==
  [][Len(tasks') > Len(tasks)
       => LET data == tasks'[Len(tasks')].data
          IN  /\ data.components = ConcatRows(AddOrder, "comp")
              /\ data.zones = ConcatRows(AddOrder, "zone")]_vars

\* C14 amended: the batch lists the rows in the order of self->rows, the
\* file added last first, each row's items in parsed order.
C14_BatchInRowsOrder ==
  [][Len(tasks') > Len(tasks)
       => LET data == tasks'[Len(tasks')].data
          IN  /\ data.components = ConcatRows(rows, "comp")
              /\ data.zones = ConcatRows(rows, "zone")]_vars

\* a batch made of two rows: the two components of the second file, then
\* the component of the first
C14_Witness ==
  /\ tasks # <<>>
  /\ tasks[1].data.components
       = <<<<"comp", 2, 1>>, <<"comp", 2, 2>>, <<"comp", 1, 1>>>>
  /\ tasks[1].data.zones = <<<<"zone", 2, 1>>, <<"zone", 2, 2>>>>

\* C15: as long as no file row is visible the placeholder is shown.
C15_PlaceholderUntilRowVisible ==
  (alive /\ \A i \in DOMAIN rows : ~row_data[rows[i]].visible)
    => placeholder_visible

\* C17: no completion callback uses the dialog after it was finalized.
C17_NoCallbackAfterFinalize == ~stale_access

\* the items of an ImportData, of the batch of task k, and the items
\* passed by call i; an item <<kind, r, j>> is the j-th of row r
BatchOf(data) ==
  {data.components[j] : j \in DOMAIN data.components}
    \cup {data.zones[j] : j \in DOMAIN data.zones}

BatchItems(k) == BatchOf(tasks[k].data)

CallItems(i) ==
  IF calls[i].op = "create_objects"
  THEN {calls[i].arg[j] : j \in DOMAIN calls[i].arg}
  ELSE {calls[i].arg}

\* C18: the ImportData of a task never changes once the task is started,
\* its client is the client of the calendar selected at the click, and every
\* backend call of the task goes to that client with items of that batch.
C18_BatchFixedAtSubmission ==
  /\ [][/\ \A k \in DOMAIN tasks : tasks'[k].data = tasks[k].data
        /\ Len(tasks') > Len(tasks)
             => tasks'[Len(tasks')].data.client
                  = gcal_calendar_get_client(selected_calendar)]_vars
  /\ [](\A i \in DOMAIN calls :
          /\ calls[i].client = tasks[calls[i].task].data.client
          /\ CallItems(i) \subseteq BatchItems(calls[i].task)
          /\ calls[i].op = "create_objects"
               => calls[i].arg = tasks[calls[i].task].data.components)

\* after the submission the selected calendar changed and the second file
\* finished parsing; the task then made its create-objects call with the
\* client and the components it was started with
C18_Witness ==
  /\ Len(tasks) = 1
  /\ selected_calendar # NULL
  /\ tasks[1].data.client # gcal_calendar_get_client(selected_calendar)
  /\ tasks[1].data.components = <<<<"comp", 1, 1>>, <<"comp", 1, 2>>>>
  /\ RowComponents(2) # <<>>
  /\ \E i \in DOMAIN calls :
       /\ calls[i].op = "create_objects"
       /\ calls[i].client = tasks[1].data.client
       /\ calls[i].arg = tasks[1].data.components

\* C19: the batch of a submission holds no item of a row that has no
\* component collection at the click, and nothing but the items of that
\* first batch is ever passed to a backend client.
C19_OnlyRowsParsedAtClick ==
  /\ [][Len(tasks') > Len(tasks)
          => \A x \in BatchOf(tasks'[Len(tasks')].data) :
               ~row_data[x[2]].components.null]_vars
  /\ [](\A i \in DOMAIN calls : CallItems(i) \subseteq BatchItems(1))

\* the second file finished parsing after the submission; the import ran
\* to its end and the dialog closed without any item of that file having
\* been passed to the backend
C19_Witness ==
  /\ Len(tasks) = 1
  /\ tasks[1].state = "completed"
  /\ closed
  /\ RowComponents(2) # <<>>
  /\ \E i \in DOMAIN calls : calls[i].op = "create_objects"
  /\ \A i \in DOMAIN calls : \A x \in CallItems(i) : x[2] # 2

====
